---------------------------- MODULE Spec2Model ----------------------------
(***************************************************************************)
(* Model of src/Sylwia.py: the Product / Category / DatabaseSchema records, *)
(* the module-level script that builds the data and prints it, and         *)
(* generate_supabase_sql_ddl, which turns a DatabaseSchema into SQL text.  *)
(*                                                                         *)
(* The file as committed does not compile: line 2, "supabase import json", *)
(* is a syntax error, so running it executes nothing.  Spec is that        *)
(* program.  BodySpec is lines 3-95 on their own, the definitions and the  *)
(* script as they behave once they are compiled; the properties of the     *)
(* records and of the function are stated of BodySpec.                     *)
(*                                                                         *)
(* Representation.                                                         *)
(*  - A Python str is a sequence of one-character strings.                 *)
(*  - An Optional[str] (and a keyword argument that may be left out) is a  *)
(*    record [present, text]; None has present = FALSE.                    *)
(*  - A float price is [cls, val, scale]: cls = "finite" with val the      *)
(*    price in units of 10^(-scale), hundredths (75.50 is 7550 at scale    *)
(*    2) unless the value is finer; cls = "inf" for float('inf'), or       *)
(*    cls = "nan" for float('nan').                                        *)
(*  - Output text is a sequence of tokens.  Tok(s) is text: one character  *)
(*    of a str value, a quote or a newline each as a token of their own,   *)
(*    or a fixed piece of a format that holds neither quote nor newline.   *)
(*    Num(n) and Flt(p) are an int and a float formatted into the text.    *)
(***************************************************************************)
EXTENDS Integers, Sequences, FiniteSets, TLC

VARIABLES
    inputs,          \* keyword arguments the script passes to the constructors
    pc,              \* position of the script / of generate_supabase_sql_ddl
    products,        \* product_1, product_2, ... constructed so far
    categories,      \* category_1, category_2, ... constructed so far
    db_data,         \* the DatabaseSchema (line 39)
    console,         \* what print() has written to stdout, one entry per call
    sql_statements,  \* the function's local list (line 48)
    all_products,    \* the function's local list (line 80)
    idx,             \* position of the running for-loop
    results          \* the texts returned by the calls of the function so far

vars == <<inputs, pc, products, categories, db_data, console,
          sql_statements, all_products, idx, results>>

---------------------------------------------------------------------------
(* Bounds of the checked instance *)

MaxLen == 2

MaxCategories == 2

MaxProducts == 2

MaxCalls == 2

---------------------------------------------------------------------------
(* Values *)

Alphabet == {"a", "'", "\n"}

Texts == UNION {[1..n -> Alphabet] : n \in 0..MaxLen}

None == [present |-> FALSE, text |-> <<>>]

Some(t) == [present |-> TRUE, text |-> t]

OptTexts == {None} \cup {Some(t) : t \in Texts}

\* n * 10^(-k); a price is kept in hundredths unless it is finer
Decimal(n, k) == [cls |-> "finite", val |-> n, scale |-> k]

Finite(v) == Decimal(v, 2)

PosInf == [cls |-> "inf", val |-> 0]

NegInf == [cls |-> "-inf", val |-> 0]

NaN == [cls |-> "nan", val |-> 0]

Prices == {Finite(-1), Finite(0), Finite(1), Finite(7550), PosInf, NaN}

---------------------------------------------------------------------------
(* The sample data of the script, lines 28-36 *)

product_1 ==
    [id |-> 1, name |-> Some(<<"L", "a", "p", "t", "o", "p", " ", "P", "r", "o">>),
     description |-> Some(<<"H", "i", "g", "h", "-", "p", "e", "r", "f", "o", "r", "m", "a", "n", "c", "e", " ", "l", "a", "p", "t", "o", "p">>),
     price |-> Finite(120000), category_id |-> 1]

product_2 ==
    [id |-> 2, name |-> Some(<<"G", "a", "m", "i", "n", "g", " ", "M", "o", "u", "s", "e">>),
     description |-> Some(<<"E", "r", "g", "o", "n", "o", "m", "i", "c", " ", "g", "a", "m", "i", "n", "g", " ", "m", "o", "u", "s", "e">>),
     price |-> Finite(7550), category_id |-> 2]

product_3 ==
    [id |-> 3, name |-> Some(<<"M", "e", "c", "h", "a", "n", "i", "c", "a", "l", " ", "K", "e", "y", "b", "o", "a", "r", "d">>),
     description |-> Some(<<"R", "G", "B", " ", "m", "e", "c", "h", "a", "n", "i", "c", "a", "l", " ", "k", "e", "y", "b", "o", "a", "r", "d">>),
     price |-> Finite(15000), category_id |-> 2]

product_4 ==
    [id |-> 4, name |-> Some(<<"S", "m", "a", "r", "t", "p", "h", "o", "n", "e", " ", "X">>),
     description |-> Some(<<"L", "a", "t", "e", "s", "t", " ", "m", "o", "d", "e", "l", " ", "s", "m", "a", "r", "t", "p", "h", "o", "n", "e">>),
     price |-> Finite(80000), category_id |-> 1]

product_5 ==
    [id |-> 5, name |-> Some(<<"C", "o", "f", "f", "e", "e", " ", "M", "a", "k", "e", "r">>),
     description |-> Some(<<"A", "u", "t", "o", "m", "a", "t", "i", "c", " ", "c", "o", "f", "f", "e", "e", " ", "m", "a", "k", "e", "r">>),
     price |-> Finite(10000), category_id |-> 3]

category_1 ==
    [id |-> 1, name |-> Some(<<"E", "l", "e", "c", "t", "r", "o", "n", "i", "c", "s">>),
     description |-> Some(<<"D", "e", "v", "i", "c", "e", "s", " ", "l", "i", "k", "e", " ", "p", "h", "o", "n", "e", "s", ",", " ", "c", "o", "m", "p", "u", "t", "e", "r", "s">>),
     products |-> <<1, 4>>]

category_2 ==
    [id |-> 2, name |-> Some(<<"P", "e", "r", "i", "p", "h", "e", "r", "a", "l", "s">>),
     description |-> Some(<<"C", "o", "m", "p", "u", "t", "e", "r", " ", "a", "c", "c", "e", "s", "s", "o", "r", "i", "e", "s">>),
     products |-> <<2, 3>>]

category_3 ==
    [id |-> 3, name |-> Some(<<"H", "o", "m", "e", " ", "A", "p", "p", "l", "i", "a", "n", "c", "e", "s">>),
     description |-> Some(<<"A", "p", "p", "l", "i", "a", "n", "c", "e", "s", " ", "f", "o", "r", " ", "h", "o", "m", "e", " ", "u", "s", "e">>),
     products |-> <<5>>]

SampleInputs ==
    [products   |-> <<product_1, product_2, product_3, product_4, product_5>>,
     categories |-> <<category_1, category_2, category_3>>]

---------------------------------------------------------------------------
(* Other inputs of the same shape: the sample generalised within the bounds *)

PoolProduct(k) ==
    [id |-> k, name |-> Some(<<"a">>), description |-> None,
     price |-> Finite(1), category_id |-> k]

ProductPool == <<PoolProduct(1), PoolProduct(2)>>

RefSeqs == UNION {[1..m -> 1..Len(ProductPool)] : m \in 0..MaxProducts}

\* up to MaxCategories categories, each holding up to MaxProducts of the pool
ShapeInputs ==
    UNION {{[products   |-> ProductPool,
             categories |-> [k \in 1..n |->
                               [id |-> k, name |-> Some(<<"a">>),
                                description |-> None, products |-> f[k]]]]
            : f \in [1..n -> RefSeqs]} : n \in 0..MaxCategories}

\* one category whose text fields range over the texts (name may be left out)
CategoryTextInputs ==
    {[products   |-> <<>>,
      categories |-> <<[id |-> 1, name |-> n, description |-> d,
                        products |-> <<>>]>>]
     : n \in OptTexts, d \in OptTexts}

\* one product whose text fields range over the texts (name may be left out)
ProductTextInputs ==
    {[products   |-> <<[id |-> 1, name |-> n, description |-> d,
                        price |-> Finite(1), category_id |-> 1]>>,
      categories |-> <<[id |-> 1, name |-> Some(<<"a">>), description |-> None,
                        products |-> <<1>>]>>]
     : n \in OptTexts, d \in OptTexts}

\* two products, the price of one of them ranging over the prices
ProductPriceInputs ==
    {[products   |-> <<[id |-> 1, name |-> Some(<<"a">>), description |-> None,
                        price |-> IF k = 1 THEN p ELSE Finite(1),
                        category_id |-> 1],
                       [id |-> 2, name |-> Some(<<"a">>), description |-> None,
                        price |-> IF k = 2 THEN p ELSE Finite(1),
                        category_id |-> 1]>>,
      categories |-> <<[id |-> 1, name |-> Some(<<"a">>), description |-> None,
                        products |-> <<1, 2>>]>>]
     : p \in Prices, k \in {1, 2}}

Inputs == {SampleInputs} \cup ShapeInputs \cup CategoryTextInputs
            \cup ProductTextInputs \cup ProductPriceInputs

---------------------------------------------------------------------------
(* The records, lines 9-24 *)

\* a mutation of Gt0: ge=0 in place of gt=0
Ge0(price) ==
    price.cls = "inf" \/ (price.cls = "finite" /\ price.val >= 0)

\* Field(..., gt=0) on a float: float('inf') > 0 is true, float('nan') > 0 is not
Gt0(price) ==
    price.cls = "inf" \/ (price.cls = "finite" /\ price.val > 0)

\* Product(**args) validates: name is required, price must be > 0
ValidProduct(args) ==
    args.name.present /\ Gt0(args.price)

Product(args) ==
    [id |-> args.id, name |-> args.name.text,
     description |-> args.description, price |-> args.price,
     category_id |-> args.category_id]

\* Category(**args) validates: name is required
ValidCategory(args) ==
    args.name.present

\* products=[product_1, product_4]: the constructed products it names
Category(args, prods) ==
    [id |-> args.id, name |-> args.name.text,
     description |-> args.description,
     products |-> [k \in 1..Len(args.products) |-> prods[args.products[k]]]]

DatabaseSchema(cats) ==
    [categories |-> cats]

---------------------------------------------------------------------------
(* JSON, line 43.  A JSON value is tagged with its JSON type; a JSON       *)
(* number is a decimal, in hundredths (1 is 100, 75.5 is 7550) unless it   *)
(* is finer (1.005 is 1005 at scale 3), an object is a record of its       *)
(* keys.  pydantic writes None as null, and by default                     *)
(* (ser_json_inf_nan = 'null') a float that is not finite as null too.     *)

JsonNull == [json |-> "null"]

JsonDecimal(n, k) == [json |-> "number", v |-> n, scale |-> k]

JsonNumber(h) == JsonDecimal(h, 2)

JsonString(t) == [json |-> "string", v |-> t]

JsonArray(s) == [json |-> "array", v |-> s]

JsonObject(r) == [json |-> "object", v |-> r]

DumpInt(n) ==
    JsonNumber(100 * n)

DumpOptional(d) ==
    IF d.present THEN JsonString(d.text) ELSE JsonNull

DumpPrice(price) ==
    IF price.cls = "finite" THEN JsonDecimal(price.val, price.scale)
    ELSE JsonNull

DumpProduct(p) ==
    JsonObject([id |-> DumpInt(p.id), name |-> JsonString(p.name),
                description |-> DumpOptional(p.description),
                price |-> DumpPrice(p.price),
                category_id |-> DumpInt(p.category_id)])

DumpCategory(c) ==
    JsonObject([id |-> DumpInt(c.id), name |-> JsonString(c.name),
                description |-> DumpOptional(c.description),
                products |-> JsonArray([k \in 1..Len(c.products) |->
                                          DumpProduct(c.products[k])])])

model_dump_json(schema) ==
    JsonObject([categories |->
                  JsonArray([k \in 1..Len(schema.categories) |->
                               DumpCategory(schema.categories[k])])])

---------------------------------------------------------------------------
(* SQL text, lines 47-90 *)

Tok(s) == [s |-> s]

\* str(n) of an int in an f-string
Num(n) == [num |-> n]

\* str(p) of a float in an f-string
Flt(p) == [float |-> p]

NL == Tok("\n")

\* the characters of a str as tokens
Chars(t) ==
    [k \in 1..Len(t) |-> Tok(t[k])]

\* lines 51-56
CategoriesDdl ==
    <<Tok("CREATE TABLE IF NOT EXISTS categories ("), NL,
      Tok("    id INT PRIMARY KEY,"), NL,
      Tok("    name VARCHAR(255) NOT NULL,"), NL,
      Tok("    description TEXT"), NL,
      Tok(");"), NL>>

\* lines 59-67
ProductsDdl ==
    <<Tok("CREATE TABLE IF NOT EXISTS products ("), NL,
      Tok("    id INT PRIMARY KEY,"), NL,
      Tok("    name VARCHAR(255) NOT NULL,"), NL,
      Tok("    description TEXT,"), NL,
      Tok("    price DECIMAL(10, 2) NOT NULL,"), NL,
      Tok("    category_id INT NOT NULL,"), NL,
      Tok("    FOREIGN KEY (category_id) REFERENCES categories(id) ON DELETE CASCADE"), NL,
      Tok(");"), NL>>

\* a mutation of CategoryHeader: the header without its comment
CategoryHeaderBlank ==
    <<NL, NL>>

\* line 70: "\n-- Insert sample data into categories\n"
CategoryHeader ==
    <<NL, Tok("-- Insert sample data into categories"), NL>>

\* line 78: "\n-- Insert sample data into products\n"
ProductHeader ==
    <<NL, Tok("-- Insert sample data into products"), NL>>

\* a mutation of Replace: the text is left as it is
ReplaceNothing(s) ==
    s

RECURSIVE Replace(_)
\* s.replace("'", "''")
Replace(s) ==
    IF s = <<>> THEN <<>>
    ELSE (IF Head(s) = "'" THEN <<"'", "'">> ELSE <<Head(s)>>)
            \o Replace(Tail(s))

\* a mutation of OrNull: (description or '')
OrEmpty(d) ==
    IF d.present /\ d.text # <<>> THEN d.text ELSE <<>>

\* (description or 'NULL'): None and the empty string are both falsy
OrNull(d) ==
    IF d.present /\ d.text # <<>> THEN d.text ELSE <<"N", "U", "L", "L">>

\* '{...}' in the f-strings of lines 75 and 88
Quote(t) ==
    <<"'">> \o t \o <<"'">>

CategoryInsertHead == "INSERT INTO categories (id, name, description) VALUES ("

ProductInsertHead ==
    "INSERT INTO products (id, name, description, price, category_id) VALUES ("

\* lines 73-75
CategoryInsert(category) ==
    LET cat_name == Replace(category.name)
        cat_desc == Replace(OrNull(category.description))
    IN  <<Tok(CategoryInsertHead), Num(category.id), Tok(", ")>>
            \o Chars(Quote(cat_name)) \o <<Tok(", ")>>
            \o Chars(Quote(cat_desc)) \o <<Tok(");")>>

\* lines 86-88
ProductInsert(product) ==
    LET prod_name == Replace(product.name)
        prod_desc == Replace(OrNull(product.description))
    IN  <<Tok(ProductInsertHead), Num(product.id), Tok(", ")>>
            \o Chars(Quote(prod_name)) \o <<Tok(", ")>>
            \o Chars(Quote(prod_desc))
            \o <<Tok(", "), Flt(product.price), Tok(", "),
                 Num(product.category_id), Tok(");")>>

\* a mutation of Extend: all_products = category.products
ExtendAssign(list, category) ==
    category.products

\* a mutation of Extend: the category's products put in front
ExtendFront(list, category) ==
    category.products \o list

\* line 82: all_products.extend(category.products)
Extend(list, category) ==
    list \o category.products

RECURSIVE Join(_)
\* line 90: "\n".join(sql_statements)
Join(statements) ==
    IF statements = <<>> THEN <<>>
    ELSE IF Len(statements) = 1 THEN statements[1]
    ELSE Head(statements) \o <<NL>> \o Join(Tail(statements))

---------------------------------------------------------------------------
(* The script and the function as a state machine *)

\* python src/Sylwia.py: nothing of the file has run yet
Init ==
    /\ inputs = SampleInputs
    /\ pc = "compile"
    /\ products = <<>>
    /\ categories = <<>>
    /\ db_data = DatabaseSchema(<<>>)
    /\ console = <<>>
    /\ sql_statements = <<>>
    /\ all_products = <<>>
    /\ idx = 1
    /\ results = <<>>

\* lines 1-2: the file is compiled as a whole before any of it runs, and
\* "supabase import json" is a syntax error: the run ends, nothing is printed
Compile ==
    /\ pc = "compile"
    /\ pc' = "syntax_error"
    /\ UNCHANGED <<inputs, products, categories, db_data, console,
                   sql_statements, all_products, idx, results>>

\* lines 3-27 done: the records and the function are defined, line 28 is next
BodyInit ==
    /\ inputs \in Inputs
    /\ pc = "construct"
    /\ products = <<>>
    /\ categories = <<>>
    /\ db_data = DatabaseSchema(<<>>)
    /\ console = <<>>
    /\ sql_statements = <<>>
    /\ all_products = <<>>
    /\ idx = 1
    /\ results = <<>>

\* lines 28-32: the next Product(...); a validation error ends the run
ConstructProduct ==
    /\ pc = "construct"
    /\ Len(products) < Len(inputs.products)
    /\ LET args == inputs.products[Len(products) + 1]
       IN  IF ValidProduct(args)
           THEN /\ products' = Append(products, Product(args))
                /\ pc' = pc
           ELSE /\ pc' = "failed"
                /\ products' = products
    /\ UNCHANGED <<inputs, categories, db_data, console, sql_statements,
                   all_products, idx, results>>

\* lines 34-36: the next Category(...)
ConstructCategory ==
    /\ pc = "construct"
    /\ Len(products) = Len(inputs.products)
    /\ Len(categories) < Len(inputs.categories)
    /\ LET args == inputs.categories[Len(categories) + 1]
       IN  IF ValidCategory(args)
           THEN /\ categories' = Append(categories, Category(args, products))
                /\ pc' = pc
           ELSE /\ pc' = "failed"
                /\ categories' = categories
    /\ UNCHANGED <<inputs, products, db_data, console, sql_statements,
                   all_products, idx, results>>

\* line 39
AssembleSchema ==
    /\ pc = "construct"
    /\ Len(products) = Len(inputs.products)
    /\ Len(categories) = Len(inputs.categories)
    /\ db_data' = DatabaseSchema(categories)
    /\ pc' = "print_json_header"
    /\ UNCHANGED <<inputs, products, categories, console, sql_statements,
                   all_products, idx, results>>

\* a mutation of PrintJsonHeader: the header printed before the data is built
PrintJsonHeaderFirst ==
    /\ pc = "construct"
    /\ console = <<>>
    /\ console' = Append(console, [kind |-> "text",
                                   body |-> <<Tok("--- Sample Data in JSON Format ---")>>])
    /\ UNCHANGED <<inputs, pc, products, categories, db_data, sql_statements,
                   all_products, idx, results>>

\* line 42
PrintJsonHeader ==
    /\ pc = "print_json_header"
    /\ console' = Append(console, [kind |-> "text",
                                   body |-> <<Tok("--- Sample Data in JSON Format ---")>>])
    /\ pc' = "print_json"
    /\ UNCHANGED <<inputs, products, categories, db_data, sql_statements,
                   all_products, idx, results>>

\* line 43
PrintJson ==
    /\ pc = "print_json"
    /\ console' = Append(console, [kind |-> "json",
                                   body |-> model_dump_json(db_data)])
    /\ pc' = "print_sql_header"
    /\ UNCHANGED <<inputs, products, categories, db_data, sql_statements,
                   all_products, idx, results>>

\* line 93: print("\n--- SQL DDL for Supabase (PostgreSQL) ---")
PrintSqlHeader ==
    /\ pc = "print_sql_header"
    /\ console' = Append(console, [kind |-> "text",
                                   body |-> <<NL, Tok("--- SQL DDL for Supabase (PostgreSQL) ---")>>])
    /\ pc' = "call"
    /\ UNCHANGED <<inputs, products, categories, db_data, sql_statements,
                   all_products, idx, results>>

\* a mutation of AppendCategoriesDdl: the list of an earlier call is kept
AppendCategoriesDdlKept ==
    /\ pc = "call"
    /\ sql_statements' = Append(sql_statements, CategoriesDdl)
    /\ pc' = "products_ddl"
    /\ UNCHANGED <<inputs, products, categories, db_data, console,
                   all_products, idx, results>>

\* lines 48-56, a call's first step: sql_statements = [] and the first append
AppendCategoriesDdl ==
    /\ pc = "call"
    /\ sql_statements' = Append(<<>>, CategoriesDdl)
    /\ pc' = "products_ddl"
    /\ UNCHANGED <<inputs, products, categories, db_data, console,
                   all_products, idx, results>>

\* lines 59-67
AppendProductsDdl ==
    /\ pc = "products_ddl"
    /\ sql_statements' = Append(sql_statements, ProductsDdl)
    /\ pc' = "category_header"
    /\ UNCHANGED <<inputs, products, categories, db_data, console,
                   all_products, idx, results>>

\* line 70, and the for-loop of line 71 starts
AppendCategoryHeader ==
    /\ pc = "category_header"
    /\ sql_statements' = Append(sql_statements, CategoryHeader)
    /\ idx' = 1
    /\ pc' = "category_loop"
    /\ UNCHANGED <<inputs, products, categories, db_data, console,
                   all_products, results>>

\* lines 71-75, one iteration
InsertCategory ==
    /\ pc = "category_loop"
    /\ idx <= Len(db_data.categories)
    /\ sql_statements' =
           Append(sql_statements, CategoryInsert(db_data.categories[idx]))
    /\ idx' = idx + 1
    /\ UNCHANGED <<inputs, pc, products, categories, db_data, console,
                   all_products, results>>

\* lines 78-80, after the loop: the header, all_products = [], the next loop starts
AppendProductHeader ==
    /\ pc = "category_loop"
    /\ idx > Len(db_data.categories)
    /\ sql_statements' = Append(sql_statements, ProductHeader)
    /\ all_products' = <<>>
    /\ idx' = 1
    /\ pc' = "flatten_loop"
    /\ UNCHANGED <<inputs, products, categories, db_data, console, results>>

\* lines 81-82, one iteration
ExtendProducts ==
    /\ pc = "flatten_loop"
    /\ idx <= Len(db_data.categories)
    /\ all_products' = Extend(all_products, db_data.categories[idx])
    /\ idx' = idx + 1
    /\ UNCHANGED <<inputs, pc, products, categories, db_data, console,
                   sql_statements, results>>

\* line 84, after the loop of line 81: the loop over all_products starts
StartProductLoop ==
    /\ pc = "flatten_loop"
    /\ idx > Len(db_data.categories)
    /\ idx' = 1
    /\ pc' = "product_loop"
    /\ UNCHANGED <<inputs, products, categories, db_data, console,
                   sql_statements, all_products, results>>

\* lines 84-88, one iteration
InsertProduct ==
    /\ pc = "product_loop"
    /\ idx <= Len(all_products)
    /\ sql_statements' =
           Append(sql_statements, ProductInsert(all_products[idx]))
    /\ idx' = idx + 1
    /\ UNCHANGED <<inputs, pc, products, categories, db_data, console,
                   all_products, results>>

\* line 90; the script's call (line 94) goes on to print, a later call does not
Return ==
    /\ pc = "product_loop"
    /\ idx > Len(all_products)
    /\ results' = Append(results, Join(sql_statements))
    /\ pc' = IF results = <<>> THEN "print_sql" ELSE "done"
    /\ UNCHANGED <<inputs, products, categories, db_data, console,
                   sql_statements, all_products, idx>>

\* line 95
PrintSql ==
    /\ pc = "print_sql"
    /\ console' = Append(console, [kind |-> "sql", body |-> results[1]])
    /\ pc' = "done"
    /\ UNCHANGED <<inputs, products, categories, db_data, sql_statements,
                   all_products, idx, results>>

\* generate_supabase_sql_ddl(db_data) called once more on the same value
CallAgain ==
    /\ pc = "done"
    /\ Len(results) < MaxCalls
    /\ pc' = "call"
    /\ UNCHANGED <<inputs, products, categories, db_data, console,
                   sql_statements, all_products, idx, results>>

\* lines 3-95
Body ==
    \/ ConstructProduct
    \/ ConstructCategory
    \/ AssembleSchema
    \/ PrintJsonHeader
    \/ PrintJson
    \/ PrintSqlHeader
    \/ AppendCategoriesDdl
    \/ AppendProductsDdl
    \/ AppendCategoryHeader
    \/ InsertCategory
    \/ AppendProductHeader
    \/ ExtendProducts
    \/ StartProductLoop
    \/ InsertProduct
    \/ Return
    \/ PrintSql
    \/ CallAgain

Next ==
    Compile \/ Body

\* the file as committed
Spec == Init /\ [][Next]_vars

\* lines 3-95 on their own
BodySpec == BodyInit /\ [][Body]_vars

---------------------------------------------------------------------------
(* Vocabulary of the properties, stated apart from the rendering code *)

\* the function has returned and no later call has started to rebuild the list
Returned ==
    results # <<>> /\ pc \in {"print_sql", "done", "call"}

Positive(price) ==
    price.cls = "inf" \/ (price.cls = "finite" /\ price.val > 0)

RECURSIVE FlatProducts(_)
\* the products of all categories, category by category
FlatProducts(cats) ==
    IF cats = <<>> THEN <<>>
    ELSE Head(cats).products \o FlatProducts(Tail(cats))

RECURSIVE ProductsBefore(_, _)
\* the number of products held by the categories before the i-th
ProductsBefore(cats, i) ==
    IF i <= 1 THEN 0
    ELSE ProductsBefore(cats, i - 1) + Len(cats[i - 1].products)

TotalProducts(cats) ==
    ProductsBefore(cats, Len(cats) + 1)

QuoteTok == [s |-> "'"]

CommaTok == [s |-> ", "]

CloseTok == [s |-> ");"]

NewlineTok == [s |-> "\n"]

CreateCategoriesTok == [s |-> "CREATE TABLE IF NOT EXISTS categories ("]

CreateProductsTok == [s |-> "CREATE TABLE IF NOT EXISTS products ("]

InsertCategoryTok ==
    [s |-> "INSERT INTO categories (id, name, description) VALUES ("]

InsertProductTok ==
    [s |-> "INSERT INTO products (id, name, description, price, category_id) VALUES ("]

CommentToks ==
    {[s |-> "-- Insert sample data into categories"],
     [s |-> "-- Insert sample data into products"]}

IsCreateTable(e) ==
    e # <<>> /\ e[1] \in {CreateCategoriesTok, CreateProductsTok}

IsCategoryInsert(e) ==
    e # <<>> /\ e[1] = InsertCategoryTok

IsProductInsert(e) ==
    e # <<>> /\ e[1] = InsertProductTok

IsHeader(e) ==
    \E k \in 1..Len(e) : e[k] \in CommentToks

RECURSIVE ReadBody(_)
\* How SQL reads a '...' literal after its opening quote: '' stands for one
\* quote, a single quote ends the literal, anything else is content.
\* The result: the text read, the tokens after the literal, the tokens used.
ReadBody(ts) ==
    IF ts = <<>> \/ "s" \notin DOMAIN ts[1]
    THEN [ok |-> FALSE, text |-> <<>>, rest |-> <<>>, used |-> 0]
    ELSE IF ts[1] # QuoteTok
         THEN LET r == ReadBody(Tail(ts))
              IN  [ok |-> r.ok, text |-> <<ts[1].s>> \o r.text,
                   rest |-> r.rest, used |-> r.used + 1]
    ELSE IF Len(ts) >= 2 /\ ts[2] = QuoteTok
         THEN LET r == ReadBody(Tail(Tail(ts)))
              IN  [ok |-> r.ok, text |-> <<"'">> \o r.text,
                   rest |-> r.rest, used |-> r.used + 2]
    ELSE [ok |-> TRUE, text |-> <<>>, rest |-> Tail(ts), used |-> 1]

ReadLiteral(ts) ==
    IF ts # <<>> /\ ts[1] = QuoteTok
    THEN LET r == ReadBody(Tail(ts))
         IN  [ok |-> r.ok, text |-> r.text, rest |-> r.rest,
              used |-> r.used + 1]
    ELSE [ok |-> FALSE, text |-> <<>>, rest |-> <<>>, used |-> 0]

NotRead ==
    [ok |-> FALSE, id |-> 0, name |-> <<>>, name_used |-> 0,
     description |-> <<>>, description_used |-> 0,
     price |-> [cls |-> "nan", val |-> 0], category_id |-> 0]

\* An INSERT statement as SQL reads it: the head, the id, and two literals,
\* for a product followed by the price and the category_id, then ");".
ReadInsert(e, head, product) ==
    IF ~(Len(e) >= 3 /\ e[1] = head /\ DOMAIN e[2] = {"num"} /\ e[3] = CommaTok)
    THEN NotRead
    ELSE LET n == ReadLiteral(SubSeq(e, 4, Len(e)))
         IN  IF ~(n.ok /\ n.rest # <<>> /\ n.rest[1] = CommaTok)
             THEN NotRead
             ELSE LET d == ReadLiteral(Tail(n.rest))
                      t == d.rest
                  IN  IF ~d.ok THEN NotRead
                      ELSE IF ~product /\ t = <<CloseTok>>
                      THEN [ok |-> TRUE, id |-> e[2].num,
                            name |-> n.text, name_used |-> n.used,
                            description |-> d.text,
                            description_used |-> d.used,
                            price |-> [cls |-> "nan", val |-> 0],
                            category_id |-> 0]
                      ELSE IF /\ product /\ Len(t) = 5
                              /\ t[1] = CommaTok /\ DOMAIN t[2] = {"float"}
                              /\ t[3] = CommaTok /\ DOMAIN t[4] = {"num"}
                              /\ t[5] = CloseTok
                      THEN [ok |-> TRUE, id |-> e[2].num,
                            name |-> n.text, name_used |-> n.used,
                            description |-> d.text,
                            description_used |-> d.used,
                            price |-> t[2].float, category_id |-> t[4].num]
                      ELSE NotRead

\* the INSERT statements emitted so far, as read, in the order of the list
CategoryInserts ==
    LET es == SelectSeq(sql_statements, IsCategoryInsert)
    IN  [k \in 1..Len(es) |-> ReadInsert(es[k], InsertCategoryTok, FALSE)]

ProductInserts ==
    LET es == SelectSeq(sql_statements, IsProductInsert)
    IN  [k \in 1..Len(es) |-> ReadInsert(es[k], InsertProductTok, TRUE)]

Quotes(t) ==
    Cardinality({k \in 1..Len(t) : t[k] = "'"})

\* the literal read is t, written with each quote of t doubled
Escapes(text, used, t) ==
    text = t /\ used = Len(t) + Quotes(t) + 2

\* the offset of the k-th element in the elements joined by newlines
RECURSIVE Offset(_, _)
Offset(s, k) ==
    IF k <= 1 THEN 0 ELSE Offset(s, k - 1) + Len(s[k - 1]) + 1

\* text is the elements of s in order, one newline between two of them
JoinedByNewlines(text, s) ==
    /\ Len(text) = Offset(s, Len(s) + 1) - 1
    /\ \A k \in 1..Len(s) :
          /\ SubSeq(text, Offset(s, k) + 1, Offset(s, k) + Len(s[k])) = s[k]
          /\ k < Len(s) => text[Offset(s, k) + Len(s[k]) + 1] = NewlineTok

\* the element before the k-th is a comment header
HeaderBefore(s, k) ==
    k > 1 /\ IsHeader(s[k - 1])

---------------------------------------------------------------------------
(* C1: every Product that has been constructed, that is held by db_data or *)
(* that has been rendered has a price > 0; a Product(...) whose price is   *)
(* <= 0 is not constructed: the run has failed at it.                      *)
C1_PricePositive ==
    /\ \A k \in 1..Len(products) :
          /\ Positive(products[k].price)
          /\ Positive(inputs.products[k].price)
    /\ \A k \in 1..Len(db_data.categories) :
          \A j \in 1..Len(db_data.categories[k].products) :
              Positive(db_data.categories[k].products[j].price)
    /\ \A k \in 1..Len(ProductInserts) :
          ProductInserts[k].ok /\ Positive(ProductInserts[k].price)
    /\ \A k \in 1..Len(inputs.products) :
          (~Positive(inputs.products[k].price) /\ pc # "construct")
              => (pc = "failed" /\ Len(products) < k)

C1_Witness ==
    /\ pc = "failed"
    /\ Len(products) < Len(inputs.products)
    /\ inputs.products[Len(products) + 1].name.present
    /\ inputs.products[Len(products) + 1].price = Finite(0)

(* C2: every category and product INSERT is read by SQL as a well-formed   *)
(* statement whose name literal is the record's name, written with each    *)
(* single quote doubled between two quotes (no unpaired quote).            *)
C2_NameEscaped ==
    /\ \A k \in 1..Len(CategoryInserts) :
          /\ CategoryInserts[k].ok
          /\ Escapes(CategoryInserts[k].name, CategoryInserts[k].name_used,
                     db_data.categories[k].name)
    /\ \A k \in 1..Len(ProductInserts) :
          /\ ProductInserts[k].ok
          /\ Escapes(ProductInserts[k].name, ProductInserts[k].name_used,
                     FlatProducts(db_data.categories)[k].name)

C2_Witness ==
    /\ Returned
    /\ \E k \in 1..Len(CategoryInserts) :
          /\ db_data.categories[k].name = <<"a", "'">>
          /\ SubSeq(SelectSeq(sql_statements, IsCategoryInsert)[k], 4, 8)
                = <<QuoteTok, [s |-> "a"], QuoteTok, QuoteTok, QuoteTok>>

(* C3: once the function has returned, the list holds exactly 2 CREATE     *)
(* TABLE statements (categories, then products), n category INSERTs and m  *)
(* product INSERTs, every statement of an earlier block before every       *)
(* statement of a later one; for the sample data the counts are 2, 3, 5.   *)
C3_StatementCounts ==
    Returned =>
        LET s == sql_statements
            creates == {k \in 1..Len(s) : IsCreateTable(s[k])}
            cats == {k \in 1..Len(s) : IsCategoryInsert(s[k])}
            prods == {k \in 1..Len(s) : IsProductInsert(s[k])}
        IN  /\ creates = {1, 2}
            /\ s[1][1] = CreateCategoriesTok
            /\ s[2][1] = CreateProductsTok
            /\ Cardinality(cats) = Len(db_data.categories)
            /\ Cardinality(prods) = TotalProducts(db_data.categories)
            /\ \A a \in creates : \A b \in cats \cup prods : a < b
            /\ \A b \in cats : \A c \in prods : b < c
            /\ inputs = SampleInputs =>
                  /\ Cardinality(creates) = 2
                  /\ Cardinality(cats) = 3
                  /\ Cardinality(prods) = 5

C3_Witness ==
    /\ Returned
    /\ inputs = SampleInputs
    /\ Len(CategoryInserts) = 3
    /\ Len(ProductInserts) = 5

(* C4: a category or product without a description gets the quoted text    *)
(* 'NULL' as the description value of its INSERT: a literal of six         *)
(* characters that SQL reads as the text NULL, not an unquoted NULL.       *)
C4_MissingDescriptionNull ==
    /\ \A k \in 1..Len(CategoryInserts) :
          ~db_data.categories[k].description.present
              => /\ CategoryInserts[k].ok
                 /\ CategoryInserts[k].description = <<"N", "U", "L", "L">>
                 /\ CategoryInserts[k].description_used = 6
    /\ \A k \in 1..Len(ProductInserts) :
          ~FlatProducts(db_data.categories)[k].description.present
              => /\ ProductInserts[k].ok
                 /\ ProductInserts[k].description = <<"N", "U", "L", "L">>
                 /\ ProductInserts[k].description_used = 6

C4_Witness ==
    /\ Returned
    /\ \E k \in 1..Len(CategoryInserts) :
          /\ db_data.categories[k].description = None
          /\ db_data.categories[k].name = <<"'">>
          /\ CategoryInserts[k].description = <<"N", "U", "L", "L">>

(* C5: once the function has returned, the product INSERTs are the         *)
(* products in flattened order: the j-th product of the i-th category is   *)
(* at the position after all products of the categories before i and the  *)
(* j - 1 products before it, one INSERT per occurrence, with the product's *)
(* own id and category_id.                                                 *)
C5_FlattenedOrder ==
    Returned =>
        LET cats == db_data.categories
        IN  /\ Len(ProductInserts) = TotalProducts(cats)
            /\ \A i \in 1..Len(cats) : \A j \in 1..Len(cats[i].products) :
                  LET ins == ProductInserts[ProductsBefore(cats, i) + j]
                  IN  /\ ins.ok
                      /\ ins.id = cats[i].products[j].id
                      /\ ins.category_id = cats[i].products[j].category_id

\* two categories with two products each, one product in both of them, and a
\* product whose category_id is not the id of the category that holds it
C5_Witness ==
    /\ Returned
    /\ Len(db_data.categories) = 2
    /\ Len(ProductInserts) = 4
    /\ <<ProductInserts[1].id, ProductInserts[2].id,
         ProductInserts[3].id, ProductInserts[4].id>> = <<2, 1, 1, 2>>
    /\ db_data.categories[1].id # ProductInserts[1].category_id

(* C6: when a construction has failed, nothing has been printed.           *)
C6_NoOutputOnFailure ==
    pc = "failed" => console = <<>>

C6_Witness ==
    /\ pc = "failed"
    /\ Len(products) = Len(inputs.products)
    /\ Len(categories) < Len(inputs.categories)
    /\ ~inputs.categories[Len(categories) + 1].name.present
    /\ console = <<>>

(* A document gives a record back when it holds each field's value in the *)
(* JSON type of the field's declaration: an int or a float as a number, a  *)
(* str as a string, a missing Optional[str] as null, a list as an array in *)
(* the same order.  price is declared float and required (line 13), and    *)
(* JSON null is no float: a document whose price is null gives no product. *)
HeldInt(j, n) ==
    j = JsonDecimal(100 * n, 2)

HeldFloat(j, p) ==
    /\ j.json = "number"
    /\ p.cls = "finite" => (j.v = p.val /\ j.scale = p.scale)

HeldOptional(j, d) ==
    IF d.present THEN j = JsonString(d.text) ELSE j = JsonNull

HeldProduct(o, p) ==
    /\ o.json = "object"
    /\ DOMAIN o.v = {"id", "name", "description", "price", "category_id"}
    /\ HeldInt(o.v.id, p.id)
    /\ o.v.name = JsonString(p.name)
    /\ HeldOptional(o.v.description, p.description)
    /\ HeldFloat(o.v.price, p.price)
    /\ HeldInt(o.v.category_id, p.category_id)

HeldCategory(o, c) ==
    /\ o.json = "object"
    /\ DOMAIN o.v = {"id", "name", "description", "products"}
    /\ HeldInt(o.v.id, c.id)
    /\ o.v.name = JsonString(c.name)
    /\ HeldOptional(o.v.description, c.description)
    /\ o.v.products.json = "array"
    /\ Len(o.v.products.v) = Len(c.products)
    /\ \A k \in 1..Len(c.products) :
          HeldProduct(o.v.products.v[k], c.products[k])

HeldSchema(doc, schema) ==
    /\ doc.json = "object"
    /\ DOMAIN doc.v = {"categories"}
    /\ doc.v.categories.json = "array"
    /\ Len(doc.v.categories.v) = Len(schema.categories)
    /\ \A k \in 1..Len(schema.categories) :
          HeldCategory(doc.v.categories.v[k], schema.categories[k])

(* C7: the printed JSON document gives db_data back: it holds every        *)
(* category and every nested product of db_data, in order and field for    *)
(* field, a missing description included.                                  *)
C7_JsonRoundTrip ==
    \A k \in 1..Len(console) :
        console[k].kind = "json" => HeldSchema(console[k].body, db_data)

\* the same, of the documents whose prices are all finite
C7_FinitePricesHeld ==
    \A k \in 1..Len(console) :
        (/\ console[k].kind = "json"
         /\ \A c \in 1..Len(db_data.categories) :
               \A p \in 1..Len(db_data.categories[c].products) :
                   db_data.categories[c].products[p].price.cls = "finite")
        => HeldSchema(console[k].body, db_data)

(* C8: all calls of the function on db_data return the same text, and      *)
(* db_data is after the calls what was constructed before them.            *)
C8_Deterministic ==
    /\ \A a \in 1..Len(results) : \A b \in 1..Len(results) :
          results[a] = results[b]
    /\ pc \notin {"construct", "failed"} => db_data = [categories |-> categories]

C8_Witness ==
    /\ Len(results) >= 2
    /\ pc = "done"
    /\ Len(ProductInserts) >= 2
    /\ Len(CategoryInserts) >= 2

(* C9, as claimed: each of the three blocks (DDL, category inserts,        *)
(* product inserts) has a comment header right before it.                  *)
C9_EveryBlockHasHeader ==
    Returned =>
        LET n == Len(db_data.categories)
        IN  /\ HeaderBefore(sql_statements, 1)
            /\ HeaderBefore(sql_statements, 4)
            /\ HeaderBefore(sql_statements, 5 + n)

(* C9, amended: the returned text is the statements joined by newlines in  *)
(* the order: CREATE TABLE of categories, with which the text starts (the  *)
(* DDL block has no header), CREATE TABLE of products; the categories      *)
(* comment between two newlines, the n category INSERTs; the products      *)
(* comment between two newlines, the m product INSERTs.                    *)
C9_Layout ==
    Returned =>
        LET s == sql_statements
            text == results[Len(results)]
            n == Len(db_data.categories)
            m == TotalProducts(db_data.categories)
        IN  /\ Len(s) = 4 + n + m
            /\ JoinedByNewlines(text, s)
            /\ text[1] = CreateCategoriesTok
            /\ IsCreateTable(s[1]) /\ ~IsHeader(s[1])
            /\ s[2][1] = CreateProductsTok /\ ~IsHeader(s[2])
            /\ s[3] = <<NewlineTok,
                        [s |-> "-- Insert sample data into categories"],
                        NewlineTok>>
            /\ \A k \in 1..n : IsCategoryInsert(s[3 + k])
            /\ s[4 + n] = <<NewlineTok,
                            [s |-> "-- Insert sample data into products"],
                            NewlineTok>>
            /\ \A k \in 1..m : IsProductInsert(s[4 + n + k])

\* a name that holds a newline, so that its INSERT runs over two lines
C9_Witness ==
    /\ Returned
    /\ Len(db_data.categories) = 1
    /\ db_data.categories[1].name = <<"a", "\n">>
    /\ Len(sql_statements) = 5
    /\ ~HeaderBefore(sql_statements, 1)
    /\ HeaderBefore(sql_statements, 4)

(* C10: a description that is present, the empty string included, is       *)
(* rendered as its own text with each quote doubled, between two quotes.   *)
C10_PresentDescriptionQuoted ==
    /\ \A k \in 1..Len(CategoryInserts) :
          db_data.categories[k].description.present
              => Escapes(CategoryInserts[k].description,
                         CategoryInserts[k].description_used,
                         db_data.categories[k].description.text)
    /\ \A k \in 1..Len(ProductInserts) :
          FlatProducts(db_data.categories)[k].description.present
              => Escapes(ProductInserts[k].description,
                         ProductInserts[k].description_used,
                         FlatProducts(db_data.categories)[k].description.text)

=============================================================================
